---- MODULE Spec2Model ----
(***************************************************************************)
(* A model of kana's container lifecycle layer: the Docker availability    *)
(* guard (ensureDockerIsAvailable), site start-up (startWordPress,         *)
(* NewWordPress), the environment and mount composition of the WordPress   *)
(* container (getWordPressContainer, getWordPressMounts) and of the wp-cli *)
(* command container (WPCli).                                              *)
(*                                                                         *)
(* One behaviour is one invocation of the tool: NewDockerClient runs the   *)
(* guard, then the site operations run one after the other.  Every call to *)
(* the engine or to the file system is a step whose outcome is chosen by   *)
(* the environment.                                                        *)
(***************************************************************************)
EXTENDS Naturals, Sequences, FiniteSets, Bags, TLC

VARIABLES
    goos,           \* runtime.GOOS of the host
    site,           \* s.Settings: the site descriptor
    pc,             \* position of the invocation in the code
    retries,        \* ensureDockerIsAvailable: local retries
    listResults,    \* outcomes of the ContainerList calls made so far (TRUE = err == nil)
    launches,       \* number of execCommand("open", "-a", "Docker").Run() calls
    launchErr,      \* the error of that call, Pending before it
    sleeps,         \* number of time.Sleep calls
    guardErr,       \* error returned by ensureDockerIsAvailable
    ops,            \* site operations completed in this invocation
    events,         \* calls made by the operation in progress, in order, with their outcome
    result,         \* what the operation in progress returned
    appDir,         \* startWordPress / WPCli: local appDir / wordPressDirectory
    appVolumes,     \* startWordPress / WPCli: local appVolumes
    appContainers,  \* startWordPress: local appContainers
    idx,            \* startWordPress / NewWordPress: loop index
    cliContainer,   \* WPCli: local container
    builtEnvs,      \* the Env lists composed for the WordPress container, in order
    running,        \* the engine: the bag of the configurations of its containers
    ran,            \* WPCli: what the command container did in ContainerRunAndClean
    existed,        \* stopWordPress: the names whose container existed when stopped
    imageUpdateData,\* DockerClient.imageUpdateData: image -> time it was last checked
    checkedImages,  \* DockerClient.checkedImages: images checked in this invocation
    pulls,          \* the image pulls made in this invocation, in order
    caller          \* installWordPress waiting for WPCli: where it goes on, the command

vars == <<goos, site, pc, retries, listResults, launches, launchErr, sleeps, guardErr, ops,
          events, result, appDir, appVolumes, appContainers, idx, cliContainer,
          builtEnvs, running, ran, existed, imageUpdateData, checkedImages, pulls,
            caller>>

guardVars == <<retries, listResults, launches, launchErr, sleeps, guardErr>>
auxVars == <<ran, existed, imageUpdateData, checkedImages, pulls, caller>>
opVars == <<events, result, appDir, appVolumes, appContainers, idx, cliContainer,
            builtEnvs, running, ran, existed, imageUpdateData, checkedImages, pulls,
            caller>>
localVars == <<appDir, appVolumes, appContainers, idx, cliContainer>>

\* ------------------------------------------------------------------ bounds

\* Site operations run in one invocation.
MaxOps == 2

\* ------------------------------------------------------- program constants

maxRetries == 12
sleepDuration == 5
defaultDirPermissions == 488   \* 0750

DefaultType == "site"

\* ------------------------------------------------------------------ errors

Nil == "nil"
ErrList == "error: ContainerList failed"
ErrStartDocker == "error: unable to start Docker for Mac"
ErrExec == "error: exec: open failed"
Pending == "pending"

\* ------------------------------------------------------------- descriptors

Names == {"acme", "blog", "../.."}

\* The path elements of a name, as filepath.Join sees them between the separators.
PathElements(name) == IF name = "../.." THEN <<"..", "..">> ELSE <<name>>
Types == {"site", "plugin", "theme"}
Databases == {"sqlite", "mariadb"}
Platforms == {"darwin", "linux"}

WorkingDirectory == <<"home", "dev", "project">>

SiteDirectoryOf(name) ==
    <<"home", "dev", ".config", "kana", "sites">> \o PathElements(name)

\* The time of this invocation and the largest refresh interval, in days.
Now == 3
MaxInterval == 2
Intervals == 0 .. MaxInterval

SettingsWith(names, types, flags, intervals) ==
    { [Name |-> n, Type |-> t, Database |-> db, AutomaticLogin |-> al,
       WPDebug |-> wd, ScriptDebug |-> sd, Environment |-> "local", PHP |-> "8.2",
       IsNamedSite |-> named,
       SiteDirectory |-> SiteDirectoryOf(n),
       WorkingDirectory |-> WorkingDirectory,
       SiteDomain |-> n \o ".sites.kana.sh",
       UpdateInterval |-> ui] :
        n \in names, t \in types, db \in Databases, al \in flags,
        wd \in flags, sd \in flags, named \in BOOLEAN, ui \in intervals }

Settings == SettingsWith(Names, Types, BOOLEAN, {MaxInterval})

NoResult == [op |-> "none", err |-> Pending, code |-> 0, output |-> ""]

\* WPCli was not called by installWordPress.
NoCaller == [at |-> "", command |-> << >>]

\* No command container has run.
NoRun == [completed |-> FALSE, code |-> 0, output |-> "", removed |-> TRUE]

\* The images WPCli asks for.
Images == {"wordpress:cli-php8.2"}

\* No image has a record: every one counts as never checked.
NoImageData == [i \in {} |-> 0]

\* ------------------------------------------- ensureDockerIsAvailable (guard)

\* runtime.GOOS == "darwin"
SupportsAutoLaunchAlways(os) == TRUE

SupportsAutoLaunch(os) == os = "darwin"

GuardReturn(err) ==
    /\ guardErr' = err
    /\ pc' = "g_return"

\* _, err := apiClient.ContainerList(...); if err != nil { if darwin {...} }; return err
GuardFirstList ==
    /\ pc = "g_list"
    /\ \E ok \in BOOLEAN :
        /\ listResults' = Append(listResults, ok)
        /\ IF ok
           THEN GuardReturn(Nil)
           ELSE IF SupportsAutoLaunch(goos)
                THEN pc' = "g_launch" /\ guardErr' = guardErr
                ELSE GuardReturn(ErrList)
    /\ UNCHANGED <<launchErr, goos, site, retries, launches, sleeps, ops>>
    /\ UNCHANGED opVars

\* err = execCommand("open", "-a", "Docker").Run(); retries := 0
GuardLaunchIgnoringError ==
    /\ pc = "g_launch"
    /\ launches' = launches + 1
    /\ \E err \in {Nil, ErrExec} :
        /\ launchErr' = err
        /\ retries' = 0
        /\ pc' = "g_loop"
        /\ guardErr' = guardErr
    /\ UNCHANGED <<goos, site, listResults, sleeps, ops>>
    /\ UNCHANGED opVars

\* if err != nil { return fmt.Errorf("error: unable to start Docker for Mac") }
GuardLaunch ==
    /\ pc = "g_launch"
    /\ launches' = launches + 1
    /\ \E err \in {Nil, ErrExec} :
        /\ launchErr' = err
        /\ IF err = Nil
           THEN /\ retries' = 0
                /\ pc' = "g_loop"
                /\ guardErr' = guardErr
           ELSE /\ GuardReturn(ErrStartDocker)
                /\ retries' = retries
    /\ UNCHANGED <<goos, site, listResults, sleeps, ops>>
    /\ UNCHANGED opVars

\* The loop without its exit at retries == maxRetries: it ends only when its
\* condition retries <= maxRetries fails.
GuardLoopNoExhaustion ==
    /\ pc = "g_loop"
    /\ IF retries <= maxRetries
       THEN /\ retries' = retries + 1
            /\ pc' = "g_sleep"
            /\ guardErr' = guardErr
       ELSE /\ retries' = retries
            /\ GuardReturn(Nil)
    /\ UNCHANGED <<launchErr, goos, site, listResults, launches, sleeps, ops>>
    /\ UNCHANGED opVars

\* for retries <= maxRetries { retries++; if retries == maxRetries { return error } ...
GuardLoop ==
    /\ pc = "g_loop"
    /\ IF retries <= maxRetries
       THEN /\ retries' = retries + 1
            /\ IF retries' = maxRetries
               THEN GuardReturn(ErrStartDocker)
               ELSE pc' = "g_sleep" /\ guardErr' = guardErr
       ELSE \* loop left: return err, the nil of the last listing call
            /\ retries' = retries
            /\ GuardReturn(Nil)
    /\ UNCHANGED <<launchErr, goos, site, listResults, launches, sleeps, ops>>
    /\ UNCHANGED opVars

\* time.Sleep(time.Duration(sleepDuration) * time.Second)
GuardSleep ==
    /\ pc = "g_sleep"
    /\ sleeps' = sleeps + 1
    /\ pc' = "g_retry"
    /\ UNCHANGED <<launchErr, goos, site, retries, listResults, launches, guardErr, ops>>
    /\ UNCHANGED opVars

\* The loop's reaction to its listing call: if err != nil { return err }
RetryOutcomeBreakOnSuccess(ok) ==
    IF ok THEN GuardReturn(Nil) ELSE pc' = "g_loop" /\ guardErr' = guardErr

RetryOutcome(ok) ==
    IF ok THEN pc' = "g_loop" /\ guardErr' = guardErr ELSE GuardReturn(ErrList)

\* _, err = apiClient.ContainerList(...) inside the loop
GuardRetryList ==
    /\ pc = "g_retry"
    /\ \E ok \in BOOLEAN :
        /\ listResults' = Append(listResults, ok)
        /\ RetryOutcome(ok)
    /\ UNCHANGED <<launchErr, goos, site, retries, launches, sleeps, ops>>
    /\ UNCHANGED opVars

\* NewDockerClient: err = ensureDockerIsAvailable(...); if err != nil { return nil, err }
NewDockerClient ==
    /\ pc = "g_return"
    /\ pc' = IF guardErr = Nil THEN "idle" ELSE "exit"
    /\ UNCHANGED <<launchErr, goos, site, ops>>
    /\ UNCHANGED guardVars
    /\ UNCHANGED opVars

Guard ==
    \/ GuardFirstList
    \/ GuardLaunch
    \/ GuardLoop
    \/ GuardSleep
    \/ GuardRetryList
    \/ NewDockerClient

\* ---------------------------------------------------------------- paths

RECURSIVE JoinFrom(_, _, _)
\* filepath.Join: the elements appended one by one and the result cleaned
\* ("" and "." dropped, ".." removing the last segment, never above the root).
JoinFrom(path, elems, i) ==
    IF i > Len(elems) THEN path
    ELSE LET e == elems[i]
         IN  IF e = "" \/ e = "." THEN JoinFrom(path, elems, i + 1)
             ELSE IF e = ".."
                  THEN JoinFrom(IF Len(path) = 0 THEN path
                                ELSE SubSeq(path, 1, Len(path) - 1), elems, i + 1)
                  ELSE JoinFrom(Append(path, e), elems, i + 1)

Join(path, elems) == JoinFrom(path, elems, 1)

DocumentRoot == <<"var", "www", "html">>
wpContentDir == <<"var", "www", "html", "wp-content">>

\* getWordPressDirectory: the directory chosen before os.MkdirAll
getWordPressDirectory(d, siteLink) ==
    IF ~d.IsNamedSite \/ siteLink # ""
    THEN IF d.Type # DefaultType
         THEN Join(d.WorkingDirectory, <<"wordpress">>)
         ELSE d.WorkingDirectory
    ELSE Join(d.SiteDirectory, <<"wordpress">>)

SiteLinks == {"", "/home/dev/project"}

\* getDirectories: the application directory and the database directory
getDirectories(d, siteLink) ==
    [appDir |-> getWordPressDirectory(d, siteLink),
     databaseDir |-> Join(d.SiteDirectory, <<"database">>)]

Bind(source, target) == [Type |-> "bind", Source |-> source, Target |-> target]

\* getWordPressMounts: the mounts and the error of os.MkdirAll (mkdirOK = it succeeds)
getWordPressMounts(d, dir, mkdirOK) ==
    LET base == << Bind(dir, DocumentRoot),
                   Bind(d.SiteDirectory, <<"Site">>) >>
    IN  IF d.Type = "plugin"
        THEN IF mkdirOK
             THEN [mounts |-> Append(base, Bind(d.WorkingDirectory,
                                  Join(wpContentDir, <<"plugins">> \o PathElements(d.Name)))),
                   err |-> Nil]
             ELSE [mounts |-> base, err |-> "error: mkdir plugin directory"]
        ELSE IF d.Type = "theme"
             THEN IF mkdirOK
                  THEN [mounts |-> Append(base, Bind(d.WorkingDirectory,
                                       Join(wpContentDir, <<"themes">> \o PathElements(d.Name)))),
                        err |-> Nil]
                  ELSE [mounts |-> base, err |-> "error: mkdir theme directory"]
             ELSE [mounts |-> base, err |-> Nil]

\* ----------------------------------------------------------- environment

\* One element "key=val" of a ContainerConfig.Env list.
EnvVar(k, v) == [key |-> k, val |-> v]

\* isUsingSQLite: the site's database mode, or an error
isUsingSQLite(d) ==
    { [val |-> d.Database = "sqlite", err |-> Nil],
      [val |-> FALSE, err |-> "error: isUsingSQLite failed"] }

\* getWordPressContainer lines 151-169 with the host not derived from the site name
WordPressEnvVarsFixedHost(d, usingSQLite) ==
    << EnvVar("IS_KANA_ENVIRONMENT", "true") >> \o
    IF usingSQLite
    THEN << EnvVar("KANA_SQLITE", "true") >>
    ELSE << EnvVar("WORDPRESS_DB_HOST", "kana-database"),
            EnvVar("WORDPRESS_DB_USER", "wordpress"),
            EnvVar("WORDPRESS_DB_PASSWORD", "wordpress"),
            EnvVar("WORDPRESS_DB_NAME", "wordpress"),
            EnvVar("WORDPRESS_ADMIN_USER", "admin") >>

\* getWordPressContainer: envVars, the marker and the database block
WordPressEnvVars(d, usingSQLite) ==
    << EnvVar("IS_KANA_ENVIRONMENT", "true") >> \o
    IF usingSQLite
    THEN << EnvVar("KANA_SQLITE", "true") >>
    ELSE << EnvVar("WORDPRESS_DB_HOST", "kana-" \o d.Name \o "-database"),
            EnvVar("WORDPRESS_DB_USER", "wordpress"),
            EnvVar("WORDPRESS_DB_PASSWORD", "wordpress"),
            EnvVar("WORDPRESS_DB_NAME", "wordpress"),
            EnvVar("WORDPRESS_ADMIN_USER", "admin") >>

\* getWordPressContainer: extraConfig
ExtraConfig(d) ==
    EnvVar("WORDPRESS_CONFIG_EXTRA",
           "define( 'WP_ENVIRONMENT_TYPE', '" \o d.Environment \o "' );"
           \o (IF d.ScriptDebug THEN "define( 'SCRIPT_DEBUG', true );" ELSE ""))

\* The optional variables with the debug flag appended before the login flag.
WordPressOptionalEnvSwapped(d) ==
    (IF d.WPDebug THEN << EnvVar("WORDPRESS_DEBUG", "1") >> ELSE << >>) \o
    (IF d.AutomaticLogin THEN << EnvVar("KANA_ADMIN_LOGIN", "true") >> ELSE << >>) \o
    << ExtraConfig(d) >>

\* The optional variables appended whatever the flags say.
WordPressOptionalEnvAlways(d) ==
    << EnvVar("KANA_ADMIN_LOGIN", "true"), EnvVar("WORDPRESS_DEBUG", "1"),
       ExtraConfig(d) >>

\* getWordPressContainer lines 190-204: what is appended to wordPressContainer.Env
WordPressOptionalEnv(d) ==
    (IF d.AutomaticLogin THEN << EnvVar("KANA_ADMIN_LOGIN", "true") >> ELSE << >>) \o
    (IF d.WPDebug THEN << EnvVar("WORDPRESS_DEBUG", "1") >> ELSE << >>) \o
    << ExtraConfig(d) >>

\* getWordPressContainer: nothing is appended when the mode lookup fails
getWordPressContainer(d, volumes, containers, lookup) ==
    IF lookup.err # Nil
    THEN containers
    ELSE Append(containers,
                [Name |-> "kana-" \o d.Name \o "-wordpress",
                 Image |-> "wordpress:php" \o d.PHP,
                 HostName |-> "kana-" \o d.Name \o "-wordpress",
                 Command |-> << >>,
                 Env |-> WordPressEnvVars(d, lookup.val) \o WordPressOptionalEnv(d),
                 Volumes |-> volumes])

\* getDatabaseContainer: the database container spec is appended
getDatabaseContainer(d, databaseDir, containers) ==
    Append(containers,
           [Name |-> "kana-" \o d.Name \o "-database",
            Image |-> "mariadb",
            HostName |-> "kana-" \o d.Name \o "-database",
            Command |-> << >>,
            Env |-> << EnvVar("MARIADB_ROOT_PASSWORD", "password"),
                       EnvVar("MARIADB_DATABASE", "wordpress"),
                       EnvVar("MARIADB_USER", "wordpress"),
                       EnvVar("MARIADB_PASSWORD", "wordpress") >>,
            Volumes |-> << Bind(databaseDir, <<"var", "lib", "mysql">>) >>])

\* WPCli lines 524-542 with the remote block added in embedded mode too
CliEnvVarsNoBranch(d, usingSQLite) ==
    << EnvVar("IS_KANA_ENVIRONMENT", "true") >> \o
    (IF usingSQLite THEN << EnvVar("KANA_SQLITE", "true") >> ELSE << >>) \o
    << EnvVar("WORDPRESS_DB_HOST", "kana-" \o d.Name \o "-database"),
       EnvVar("WORDPRESS_DB_USER", "wordpress"),
       EnvVar("WORDPRESS_DB_PASSWORD", "wordpress"),
       EnvVar("WORDPRESS_DB_NAME", "wordpress"),
       EnvVar("WORDPRESS_ADMIN_USER", "admin") >>

\* WPCli: envVars, the marker and the database block
CliEnvVars(d, usingSQLite) ==
    << EnvVar("IS_KANA_ENVIRONMENT", "true") >> \o
    IF usingSQLite
    THEN << EnvVar("KANA_SQLITE", "true") >>
    ELSE << EnvVar("WORDPRESS_DB_HOST", "kana-" \o d.Name \o "-database"),
            EnvVar("WORDPRESS_DB_USER", "wordpress"),
            EnvVar("WORDPRESS_DB_PASSWORD", "wordpress"),
            EnvVar("WORDPRESS_DB_NAME", "wordpress"),
            EnvVar("WORDPRESS_ADMIN_USER", "admin") >>

\* WPCli lines 557-559: what is appended to container.Env
CliOptionalEnv(d) ==
    IF d.AutomaticLogin THEN << EnvVar("KANA_ADMIN_LOGIN", "true") >> ELSE << >>

\* WPCli lines 517-559: the command container
CliContainer(d, command, volumes, usingSQLite) ==
    [Name |-> "kana-" \o d.Name \o "-wordpress_cli",
     Image |-> "wordpress:cli-php" \o d.PHP,
     HostName |-> "kana-" \o d.Name \o "-wordpress_cli",
     Command |-> <<"wp", "--path=/var/www/html">> \o command,
     Env |-> CliEnvVars(d, usingSQLite) \o CliOptionalEnv(d),
     Volumes |-> volumes]

\* ------------------------------------------------------------------ engine

\* One call of the operation in progress and whether it succeeded.
Event(call, arg, ok) == [call |-> call, arg |-> arg, ok |-> ok]

\* The bag without the containers of that name.
WithoutName(bag, name) ==
    [ x \in { y \in DOMAIN bag : y.Name # name } |-> bag[x] ]

\* {name} if the engine has a container of that name, {} if not.
Existing(bag, name) ==
    IF \E x \in DOMAIN bag : x.Name = name THEN {name} ELSE {}

\* Run without the removal of the stale container.
ContainerRunNoRemove(bag, c) == bag (+) SetToBag({c})

\* ContainerRun / startContainer on success: a container already existing under
\* spec.Name is removed first, then the new one is created.
ContainerRun(bag, c) ==
    (IF c.Name = "" THEN bag ELSE WithoutName(bag, c.Name)) (+) SetToBag({c})

Return(op, code, output, err) ==
    /\ result' = [op |-> op, err |-> err, code |-> code, output |-> output]
    /\ pc' = "returned"

\* ------------------------------------------------------------ startWordPress

StartReturn(err) == Return("start", 0, "", err)

\* _, _, err := s.dockerClient.EnsureNetwork("kana")
StartEnsureNetwork ==
    /\ pc = "idle"
    /\ ops < MaxOps
    /\ \E ok \in BOOLEAN :
        /\ events' = Append(events, Event("EnsureNetwork", "kana", ok))
        /\ IF ok
           THEN pc' = "s_dirs" /\ result' = result
           ELSE StartReturn("error: EnsureNetwork failed")
    /\ UNCHANGED <<goos, site, ops, builtEnvs, running>>
    /\ UNCHANGED guardVars
    /\ UNCHANGED auxVars
    /\ UNCHANGED localVars

\* appDir, databaseDir, err := s.getDirectories()
StartGetDirectories ==
    /\ pc = "s_dirs"
    /\ \E ok \in BOOLEAN, link \in SiteLinks :
        /\ events' = Append(events, Event("getDirectories", "", ok))
        /\ IF ok
           THEN /\ appDir' = getDirectories(site, link).appDir
                /\ pc' = "s_config"
                /\ result' = result
           ELSE /\ appDir' = appDir
                /\ StartReturn("error: getDirectories failed")
    /\ UNCHANGED <<goos, site, ops, builtEnvs, running>>
    /\ UNCHANGED <<appVolumes, appContainers, idx, cliContainer>>
    /\ UNCHANGED guardVars
    /\ UNCHANGED auxVars

\* _, err = os.Stat(wp-config.php); if err == nil { os.Remove(wp-config.php) }
StartRemoveConfig ==
    /\ pc = "s_config"
    /\ \E exists \in BOOLEAN :
        events' = IF exists
                  THEN Append(events, Event("os.Remove", "wp-config.php", TRUE))
                  ELSE events
    /\ pc' = "s_mounts"
    /\ UNCHANGED <<goos, site, ops, result, builtEnvs, running>>
    /\ UNCHANGED guardVars
    /\ UNCHANGED auxVars
    /\ UNCHANGED localVars

\* startWordPress lines 412-415 with the error of getWordPressMounts dropped
StartPlanMountsIgnoringError ==
    /\ pc = "s_mounts"
    /\ \E mkdirOK \in BOOLEAN :
        LET planned == getWordPressMounts(site, appDir, mkdirOK)
        IN  /\ events' = Append(events,
                    Event("getWordPressMounts", "", planned.err = Nil))
            /\ appVolumes' = planned.mounts
            /\ pc' = "s_build"
            /\ result' = result
    /\ UNCHANGED <<goos, site, ops, builtEnvs, running>>
    /\ UNCHANGED <<appDir, appContainers, idx, cliContainer>>
    /\ UNCHANGED guardVars
    /\ UNCHANGED auxVars

\* appVolumes, err := s.getWordPressMounts(appDir)
StartPlanMounts ==
    /\ pc = "s_mounts"
    /\ \E mkdirOK \in BOOLEAN :
        LET planned == getWordPressMounts(site, appDir, mkdirOK)
        IN  /\ events' = Append(events,
                    Event("getWordPressMounts", "", planned.err = Nil))
            /\ IF planned.err = Nil
               THEN /\ appVolumes' = planned.mounts
                    /\ pc' = "s_build"
                    /\ result' = result
               ELSE /\ appVolumes' = appVolumes
                    /\ StartReturn(planned.err)
    /\ UNCHANGED <<goos, site, ops, builtEnvs, running>>
    /\ UNCHANGED <<appDir, appContainers, idx, cliContainer>>
    /\ UNCHANGED guardVars
    /\ UNCHANGED auxVars

\* startWordPress lines 417-420 with the two container specs built in the other order
BuildAppContainersAppFirst(d, volumes, lookup) ==
    getDatabaseContainer(d, getDirectories(d, "").databaseDir,
        getWordPressContainer(d, volumes, << >>, lookup))

\* startWordPress lines 417-420: the database container, then the WordPress container
BuildAppContainers(d, volumes, lookup) ==
    getWordPressContainer(d, volumes,
        getDatabaseContainer(d, getDirectories(d, "").databaseDir, << >>), lookup)

\* The name getWordPressContainer gives the WordPress container.
WordPressName(d) == "kana-" \o d.Name \o "-wordpress"

\* The Env lists of the WordPress containers in a list of container specs.
WordPressEnvsOf(d, containers) ==
    SelectSeq([i \in 1..Len(containers) |-> containers[i].Env],
              LAMBDA e : \E i \in 1..Len(containers) :
                            containers[i].Name = WordPressName(d) /\ containers[i].Env = e)

\* appContainers = s.getDatabaseContainer(...); appContainers = s.getWordPressContainer(...)
StartBuild ==
    /\ pc = "s_build"
    /\ \E lookup \in isUsingSQLite(site) :
        /\ appContainers' = BuildAppContainers(site, appVolumes, lookup)
        /\ builtEnvs' = builtEnvs \o WordPressEnvsOf(site, appContainers')
        /\ idx' = 1
        /\ pc' = IF Len(appContainers') = 0 THEN "s_verify" ELSE "s_run"
    /\ UNCHANGED <<goos, site, ops, events, result, running>>
    /\ UNCHANGED <<appDir, appVolumes, cliContainer>>
    /\ UNCHANGED guardVars
    /\ UNCHANGED auxVars

\* err := s.startContainer(&appContainers[i], true, true, consoleOutput)
StartRunContainer ==
    /\ pc = "s_run"
    /\ idx <= Len(appContainers)
    /\ \E ok \in BOOLEAN :
        /\ events' = Append(events, Event("startContainer", appContainers[idx].Name, ok))
        /\ existed' = existed \cup Existing(running, appContainers[idx].Name)
        /\ IF ok
           THEN /\ running' = ContainerRun(running, appContainers[idx])
                /\ idx' = idx + 1
                /\ pc' = IF idx' > Len(appContainers) THEN "s_verify" ELSE "s_run"
                /\ result' = result
           ELSE /\ running' = running
                /\ idx' = idx
                /\ StartReturn("error: startContainer failed")
    /\ UNCHANGED <<goos, site, ops, builtEnvs>>
    /\ UNCHANGED <<appDir, appVolumes, appContainers, cliContainer>>
    /\ UNCHANGED guardVars
    /\ UNCHANGED <<ran, imageUpdateData, checkedImages, pulls, caller>>

\* return s.verifyDatabase(consoleOutput)
StartVerifyDatabase ==
    /\ pc = "s_verify"
    /\ \E ok \in BOOLEAN :
        /\ events' = Append(events, Event("verifyDatabase", "", ok))
        /\ StartReturn(IF ok THEN Nil ELSE "error: verifyDatabase failed")
    /\ UNCHANGED <<goos, site, ops, builtEnvs, running>>
    /\ UNCHANGED guardVars
    /\ UNCHANGED auxVars
    /\ UNCHANGED localVars

startWordPress ==
    \/ StartEnsureNetwork
    \/ StartGetDirectories
    \/ StartRemoveConfig
    \/ StartPlanMounts
    \/ StartBuild
    \/ StartRunContainer
    \/ StartVerifyDatabase

\* -------------------------------------------------------------------- WPCli

\* strings.Contains(destination, dir + "/") for an absolute directory dir
ContainsDir(destination, dir) ==
    \E i \in 1..Len(destination) :
        /\ i + Len(dir) <= Len(destination)
        /\ SubSeq(destination, i, i + Len(dir) - 1) = dir

PluginsDir == <<"var", "www", "html", "wp-content", "plugins">>
ThemesDir == <<"var", "www", "html", "wp-content", "themes">>

\* ContainerGetMounts: the mounts of the running container of that name
ContainerGetMounts(name) ==
    IF \E c \in BagToSet(running) : c.Name = name
    THEN (CHOOSE c \in BagToSet(running) : c.Name = name).Volumes
    ELSE << >>

\* The loop over the mounts never calling OverrideType.
OverriddenTypeKept(mounts, i, type) == type

RECURSIVE OverriddenType(_, _, _)
\* WPCli lines 491-505: the type after the loop over the mounts
OverriddenType(mounts, i, type) ==
    IF i > Len(mounts) THEN type
    ELSE LET afterPlugin == IF ContainsDir(mounts[i].Target, PluginsDir)
                            THEN "plugin" ELSE type
             afterTheme == IF ContainsDir(mounts[i].Target, ThemesDir)
                           THEN "theme" ELSE afterPlugin
         IN  OverriddenType(mounts, i + 1, afterTheme)

\* Whether the loop calls s.settings.OverrideType at all.
Overrides(mounts) ==
    \E i \in 1..Len(mounts) :
        \/ ContainsDir(mounts[i].Target, PluginsDir)
        \/ ContainsDir(mounts[i].Target, ThemesDir)

CliReturn(code, output, err) == Return("wpcli", code, output, err)

Commands == { <<"option", "get", "siteurl">> }

\* The command WPCli was handed: installWordPress's own, or one of the user's.
CommandsOf(frame) == IF frame.at = "" THEN Commands ELSE { frame.command }

\* mounts := s.dockerClient.ContainerGetMounts(...); for _, mount := range mounts {...}
CliInferType ==
    /\ pc \in {"idle", "c_call"}
    /\ pc = "idle" => ops < MaxOps
    /\ LET mounts == ContainerGetMounts(WordPressName(site))
       IN  /\ events' = Append(events, Event("ContainerGetMounts", "", TRUE))
           /\ \E overrideOK \in BOOLEAN :
                IF Overrides(mounts) /\ ~overrideOK
                THEN /\ site' = site
                     /\ CliReturn(1, "", "error: OverrideType failed")
                ELSE /\ site' = [site EXCEPT !.Type = OverriddenType(mounts, 1, site.Type)]
                     /\ pc' = "c_dir"
                     /\ result' = result
    /\ UNCHANGED <<goos, ops, builtEnvs, running>>
    /\ UNCHANGED guardVars
    /\ UNCHANGED auxVars
    /\ UNCHANGED localVars

\* wordPressDirectory, err := s.getWordPressDirectory()
CliGetDirectory ==
    /\ pc = "c_dir"
    /\ \E ok \in BOOLEAN, link \in SiteLinks :
        /\ events' = Append(events, Event("getWordPressDirectory", "", ok))
        /\ IF ok
           THEN /\ appDir' = getWordPressDirectory(site, link)
                /\ pc' = "c_mounts"
                /\ result' = result
           ELSE /\ appDir' = appDir
                /\ CliReturn(1, "", "error: getWordPressDirectory failed")
    /\ UNCHANGED <<goos, site, ops, builtEnvs, running>>
    /\ UNCHANGED <<appVolumes, appContainers, idx, cliContainer>>
    /\ UNCHANGED guardVars
    /\ UNCHANGED auxVars

\* appVolumes, err := s.getWordPressMounts(wordPressDirectory)
CliPlanMounts ==
    /\ pc = "c_mounts"
    /\ \E mkdirOK \in BOOLEAN :
        LET planned == getWordPressMounts(site, appDir, mkdirOK)
        IN  /\ events' = Append(events,
                    Event("getWordPressMounts", "", planned.err = Nil))
            /\ IF planned.err = Nil
               THEN /\ appVolumes' = planned.mounts
                    /\ pc' = "c_build"
                    /\ result' = result
               ELSE /\ appVolumes' = appVolumes
                    /\ CliReturn(1, "", planned.err)
    /\ UNCHANGED <<goos, site, ops, builtEnvs, running>>
    /\ UNCHANGED <<appDir, appContainers, idx, cliContainer>>
    /\ UNCHANGED guardVars
    /\ UNCHANGED auxVars

\* isUsingSQLite, err := s.isUsingSQLite(); container := docker.ContainerConfig{...}
CliBuild ==
    /\ pc = "c_build"
    /\ \E lookup \in isUsingSQLite(site), command \in CommandsOf(caller) :
        IF lookup.err # Nil
        THEN /\ cliContainer' = cliContainer
             /\ CliReturn(1, "", lookup.err)
        ELSE /\ cliContainer' = CliContainer(site, command, appVolumes, lookup.val)
             /\ pc' = "c_image"
             /\ result' = result
    /\ UNCHANGED <<goos, site, ops, events, builtEnvs, running>>
    /\ UNCHANGED <<appDir, appVolumes, appContainers, idx>>
    /\ UNCHANGED guardVars
    /\ UNCHANGED auxVars

\* s.settings.GetInt("UpdateInterval"), the interval WPCli hands to EnsureImage.
CliUpdateIntervalZero(d) == 0

CliUpdateInterval(d) == d.UpdateInterval

\* Whether EnsureImage(image, interval) pulls: never an image already checked in
\* this invocation; otherwise when there is no record or the record's age exceeds
\* the interval. At an age of exactly the interval either may happen.
PullChoices(data, checked, image, interval) ==
    IF image \in checked THEN {FALSE}
    ELSE IF image \notin DOMAIN data THEN {TRUE}
    ELSE IF Now - data[image] > interval THEN {TRUE}
    ELSE IF Now - data[image] = interval THEN BOOLEAN
    ELSE {FALSE}

\* The record EnsureImage writes after a successful check: lastChecked = now.
Checked(data, image) ==
    [i \in DOMAIN data \cup {image} |-> IF i = image THEN Now ELSE data[i]]

\* What the pull-count instrumentation keeps of one pull.
Pull(data, image, interval) ==
    [image |-> image, interval |-> interval, known |-> image \in DOMAIN data,
     lastChecked |-> IF image \in DOMAIN data THEN data[image] ELSE 0]

\* err = s.dockerClient.EnsureImage(container.Image, UpdateInterval, consoleOutput)
\* if err != nil { return 1, "", err }
CliEnsureImage ==
    /\ pc = "c_image"
    /\ LET image == cliContainer.Image
           interval == CliUpdateInterval(site)
       IN \E pull \in PullChoices(imageUpdateData, checkedImages, image, interval),
             ok \in BOOLEAN :
            /\ ~pull => ok          \* the only failure is a failed pull
            /\ pulls' = IF pull
                        THEN Append(pulls, Pull(imageUpdateData, image, interval))
                        ELSE pulls
            /\ imageUpdateData' = IF ok THEN Checked(imageUpdateData, image)
                                  ELSE imageUpdateData
            /\ checkedImages' = IF ok THEN checkedImages \cup {image}
                                ELSE checkedImages
            /\ events' = Append(events, Event("EnsureImage", image, ok))
            /\ IF ok
               THEN pc' = "c_run" /\ result' = result
               ELSE CliReturn(1, "", "error: EnsureImage failed")
    /\ UNCHANGED <<goos, site, ops, builtEnvs, running, ran, existed, caller>>
    /\ UNCHANGED guardVars
    /\ UNCHANGED localVars

\* What the command container may do once ContainerRunAndClean has it: run to
\* completion with an exit code and its output, after which its removal succeeds
\* or fails; or never run because the engine fails.
Runs ==
    { [completed |-> TRUE, code |-> c.code, output |-> c.output, removed |-> r] :
        c \in { [code |-> 0, output |-> "https://acme.sites.kana.sh\n"],
                [code |-> 1, output |-> "Error: option not found"] },
        r \in BOOLEAN }
    \cup { [completed |-> FALSE, code |-> 0, output |-> "", removed |-> TRUE] }

\* What ContainerRunAndClean hands back: the exit code, the output, the error.
\* A failed removal is logged and changes nothing of the captured result.
RunAndCleanOutcomes(run) ==
    IF run.completed
    THEN [code |-> run.code, output |-> run.output, err |-> Nil]
    ELSE [code |-> run.code, output |-> "",
          err |-> "error: ContainerRunAndClean failed"]

\* Variants of what WPCli makes of the outcome.
CliResultNonZeroIsError(out) ==
    IF out.err # Nil \/ out.code # 0
    THEN [code |-> out.code, output |-> "", err |-> "error: command failed"]
    ELSE [code |-> out.code, output |-> out.output, err |-> Nil]

CliResultDropsOutput(out) ==
    [code |-> out.code, output |-> "", err |-> out.err]

\* if err != nil { return code, "", err }
\* return code, output, nil
CliResult(out) ==
    IF out.err # Nil
    THEN [code |-> out.code, output |-> "", err |-> out.err]
    ELSE [code |-> out.code, output |-> out.output, err |-> Nil]

\* code, output, err := s.dockerClient.ContainerRunAndClean(&container, interactive)
CliRunAndClean ==
    /\ pc = "c_run"
    /\ \E run \in Runs :
        LET out == RunAndCleanOutcomes(run)
            res == CliResult(out)
        IN /\ ran' = run
           /\ events' = Append(events,
                   Event("ContainerRunAndClean", cliContainer.Name, out.err = Nil))
           /\ CliReturn(res.code, res.output, res.err)
    /\ UNCHANGED <<goos, site, ops, builtEnvs, running, existed,
                   imageUpdateData, checkedImages, pulls, caller>>
    /\ UNCHANGED guardVars
    /\ UNCHANGED localVars

WPCli ==
    \/ CliInferType
    \/ CliGetDirectory
    \/ CliPlanMounts
    \/ CliBuild
    \/ CliEnsureImage
    \/ CliRunAndClean

\* -------------------------------------------------------------- NewWordPress

\* NewWordPress lines 11-42: wordPressContainers
wordPressContainers(siteName) ==
    << [Name |-> "",
        Image |-> "mariadb",
        HostName |-> "kana_" \o siteName \o "_mariadb",
        Command |-> << >>,
        Env |-> << EnvVar("MARIADB_ROOT_PASSWORD", "password"),
                   EnvVar("MARIADB_DATABASE", "wordpress"),
                   EnvVar("MARIADB_USER", "wordpress"),
                   EnvVar("MARIADB_PASSWORD", "wordpress") >>,
        Volumes |-> << >>],
       [Name |-> "",
        Image |-> "wordpress",
        HostName |-> "kana_" \o siteName \o "_wordpress",
        Command |-> << >>,
        Env |-> << EnvVar("WORDPRESS_DB_HOST", "kana_" \o siteName \o "_mariadb"),
                   EnvVar("WORDPRESS_DB_USER", "wordpress"),
                   EnvVar("WORDPRESS_DB_PASSWORD", "wordpress"),
                   EnvVar("WORDPRESS_DB_NAME", "wordpress") >>,
        Volumes |-> << >>] >>

\* panic(err)
Panic(err) ==
    /\ result' = [op |-> "new", err |-> err, code |-> 0, output |-> ""]
    /\ pc' = "exit"

\* wordPressContainers := []docker.ContainerConfig{...}
NewBuild ==
    /\ pc = "idle"
    /\ ops < MaxOps
    /\ appContainers' = wordPressContainers(site.Name)
    /\ idx' = 1
    /\ pc' = "n_image"
    /\ UNCHANGED <<goos, site, ops, events, result, builtEnvs, running>>
    /\ UNCHANGED <<appDir, appVolumes, cliContainer>>
    /\ UNCHANGED guardVars
    /\ UNCHANGED auxVars

\* The loop of NewWordPress going on to ContainerRun whatever EnsureImage returned.
NewEnsureImageIgnoringError ==
    /\ pc = "n_image"
    /\ \E ok \in BOOLEAN :
        /\ events' = Append(events, Event("EnsureImage", appContainers[idx].Image, ok))
        /\ pc' = "n_run"
        /\ result' = result
    /\ UNCHANGED <<goos, site, ops, builtEnvs, running>>
    /\ UNCHANGED guardVars
    /\ UNCHANGED auxVars
    /\ UNCHANGED localVars

\* err := controller.EnsureImage(container.Image); if err != nil { panic(err) }
NewEnsureImage ==
    /\ pc = "n_image"
    /\ \E ok \in BOOLEAN :
        /\ events' = Append(events, Event("EnsureImage", appContainers[idx].Image, ok))
        /\ IF ok
           THEN pc' = "n_run" /\ result' = result
           ELSE Panic("error: EnsureImage failed")
    /\ UNCHANGED <<goos, site, ops, builtEnvs, running>>
    /\ UNCHANGED guardVars
    /\ UNCHANGED auxVars
    /\ UNCHANGED localVars

\* _, err = controller.ContainerRun(container)
NewContainerRun ==
    /\ pc = "n_run"
    /\ \E ok \in BOOLEAN :
        /\ events' = Append(events,
                Event("ContainerRun", appContainers[idx].HostName, ok))
        /\ IF ok
           THEN /\ running' = ContainerRun(running, appContainers[idx])
                /\ idx' = idx + 1
                /\ IF idx' > Len(appContainers)
                   THEN Return("new", 0, "", Nil)
                   ELSE pc' = "n_image" /\ result' = result
           ELSE /\ running' = running
                /\ idx' = idx
                /\ Panic("error: ContainerRun failed")
    /\ UNCHANGED <<goos, site, ops, builtEnvs>>
    /\ UNCHANGED <<appDir, appVolumes, appContainers, cliContainer>>
    /\ UNCHANGED guardVars
    /\ UNCHANGED auxVars

NewWordPress ==
    \/ NewBuild
    \/ NewEnsureImage
    \/ NewContainerRun

\* ------------------------------------------------------------ stopWordPress

StopReturn(err) == Return("stop", 0, "", err)

\* The names without the last one.
getWordPressContainersWithoutMailpit(d) ==
    << "kana-" \o d.Name \o "-database",
       "kana-" \o d.Name \o "-wordpress",
       "kana-" \o d.Name \o "-phpmyadmin" >>

\* getWordPressContainers: the container names for the site
getWordPressContainers(d) ==
    << "kana-" \o d.Name \o "-database",
       "kana-" \o d.Name \o "-wordpress",
       "kana-" \o d.Name \o "-phpmyadmin",
       "kana-" \o d.Name \o "-mailpit" >>

ErrEngine == "error: ContainerStop failed"

\* The errors ContainerStop(name) may hand back: none, or the engine's own. That
\* there is no container of that name is not an error.
ContainerStopErrors(bag, name) == {Nil, ErrEngine}

\* ContainerStop on success: the container is stopped and destroyed.
ContainerStop(bag, name) == WithoutName(bag, name)

\* wordPressContainers := s.getWordPressContainers()
StopGetContainers ==
    /\ pc = "idle"
    /\ ops < MaxOps
    /\ idx' = 1
    /\ pc' = "p_stop"
    /\ UNCHANGED <<goos, site, ops, events, result, builtEnvs, running>>
    /\ UNCHANGED <<appDir, appVolumes, appContainers, cliContainer>>
    /\ UNCHANGED guardVars
    /\ UNCHANGED auxVars

\* for _, wordPressContainer := range wordPressContainers {
\*     _, err := s.dockerClient.ContainerStop(wordPressContainer)
\*     if err != nil { return err } }
\* return nil
StopContainer ==
    /\ pc = "p_stop"
    /\ LET names == getWordPressContainers(site)
           name == names[idx]
       IN /\ idx <= Len(names)
          /\ \E err \in ContainerStopErrors(running, name) :
               /\ events' = Append(events, Event("ContainerStop", name, err = Nil))
               /\ existed' = existed \cup Existing(running, name)
               /\ IF err = Nil
                  THEN /\ running' = ContainerStop(running, name)
                       /\ idx' = idx + 1
                       /\ IF idx' > Len(names)
                          THEN StopReturn(Nil)
                          ELSE pc' = "p_stop" /\ result' = result
                  ELSE /\ running' = running
                       /\ idx' = idx
                       /\ StopReturn(err)
    /\ UNCHANGED <<goos, site, ops, builtEnvs>>
    /\ UNCHANGED <<appDir, appVolumes, appContainers, cliContainer>>
    /\ UNCHANGED guardVars
    /\ UNCHANGED <<ran, imageUpdateData, checkedImages, pulls, caller>>

stopWordPress ==
    \/ StopGetContainers
    \/ StopContainer

\* --------------------------------------------------------- installWordPress

Multisites == {"none", "subdomain", "subdirectory"}

\* s.Settings.URL: the address of the site under its SSL setting.
SiteURL(d, ssl) == (IF ssl THEN "https://" ELSE "http://") \o d.SiteDomain

\* The lines wp-cli may print for `option get siteurl`, without their line end.
URLs == { SiteURL([SiteDomain |-> n \o ".sites.kana.sh"], ssl) :
            n \in Names, ssl \in BOOLEAN }

\* strings.TrimSpace(checkURL): the printed line without its line end.
TrimSpace(str) ==
    IF \E u \in URLs : str = u \o "\n"
    THEN CHOOSE u \in URLs : str = u \o "\n"
    ELSE str

checkCommand == <<"option", "get", "siteurl">>

options == <<"siteurl", "home">>

\* setupCommand, with "--subdomains" appended for a subdomain multisite.
setupCommand(d, multisite, url) ==
    << "core", IF multisite # "none" THEN "multisite-install" ELSE "install",
       "--url=" \o url,
       "--title=Kana Development " \o d.Type \o ": " \o d.Name,
       "--admin_user=admin", "--admin_password=password",
       "--admin_email=admin@sites.kana.sh" >>
    \o (IF multisite = "subdomain" THEN <<"--subdomains">> ELSE << >>)

setSiteURLCommand(option, url) == <<"option", "update", option, url>>

\* What a call of WPCli leaves alone in installWordPress, and installWordPress itself.
installFrame ==
    <<goos, site, ops, builtEnvs, running, existed, imageUpdateData, checkedImages,
      pulls, appDir, appVolumes, appContainers, cliContainer>>

\* s.Cli.WPCli(command, false, consoleOutput): WPCli runs, then installWordPress
\* goes on at `at`.
InstallCall(at, command) ==
    /\ caller' = [at |-> at, command |-> command]
    /\ pc' = "c_call"
    /\ events' = << >>
    /\ ran' = NoRun
    /\ result' = NoResult

InstallReturn(err) ==
    /\ Return("install", 0, "", err)
    /\ caller' = NoCaller
    /\ UNCHANGED <<events, ran>>

ErrNilDereference == "panic: invalid memory address or nil pointer dereference"

\* err.Error() on a nil error: the runtime panics.
InstallPanic ==
    /\ result' = [op |-> "install", err |-> ErrNilDereference, code |-> 0, output |-> ""]
    /\ pc' = "exit"
    /\ caller' = NoCaller
    /\ UNCHANGED <<events, ran>>

\* code, checkURL, err := s.Cli.WPCli(checkCommand, false, consoleOutput)
InstallCheck ==
    /\ pc = "idle"
    /\ ops < MaxOps
    /\ InstallCall("i_checked", checkCommand)
    /\ UNCHANGED idx
    /\ UNCHANGED installFrame
    /\ UNCHANGED guardVars

\* if err != nil || code != 0 { ...; err = s.writeHtaccess(); ...; WPCli(setupCommand) }
\* else if strings.TrimSpace(checkURL) != s.Settings.URL { for _, option := range options { ...
InstallChecked ==
    /\ pc = "returned"
    /\ caller.at = "i_checked"
    /\ \E ssl \in BOOLEAN :
        IF result.err # Nil \/ result.code # 0
        THEN \E multisite \in Multisites, htaccessOK \in BOOLEAN :
                /\ idx' = idx
                /\ IF multisite # "none" /\ ~htaccessOK
                   THEN InstallReturn("error: writeHtaccess failed")
                   ELSE InstallCall("i_setup",
                            setupCommand(site, multisite, SiteURL(site, ssl)))
        ELSE IF TrimSpace(result.output) # SiteURL(site, ssl)
             THEN /\ idx' = 1
                  /\ InstallCall("i_updated",
                         setSiteURLCommand(options[1], SiteURL(site, ssl)))
             ELSE /\ idx' = idx
                  /\ InstallReturn(Nil)
    /\ UNCHANGED installFrame
    /\ UNCHANGED guardVars

\* code, output, err = s.Cli.WPCli(setupCommand, false, consoleOutput)
\* if err != nil || code != 0 { return fmt.Errorf("installation ... failed: %s", output) }
InstallSetupDone ==
    /\ pc = "returned"
    /\ caller.at = "i_setup"
    /\ IF result.err # Nil \/ result.code # 0
       THEN InstallReturn("installation of WordPress failed: " \o result.output)
       ELSE InstallReturn(Nil)
    /\ UNCHANGED idx
    /\ UNCHANGED installFrame
    /\ UNCHANGED guardVars

\* code, _, err = s.Cli.WPCli(setSiteURLCommand, false, consoleOutput)
\* if err != nil || code != 0 { return fmt.Errorf("... failed: %s", err.Error()) }
InstallUpdated ==
    /\ pc = "returned"
    /\ caller.at = "i_updated"
    /\ IF result.err # Nil \/ result.code # 0
       THEN /\ idx' = idx
            /\ IF result.err = Nil
               THEN InstallPanic
               ELSE InstallReturn("installation of WordPress failed: " \o result.err)
       ELSE IF idx < Len(options)
            THEN /\ idx' = idx + 1
                 /\ InstallCall("i_updated",
                        setSiteURLCommand(options[idx + 1], caller.command[4]))
            ELSE /\ idx' = idx
                 /\ InstallReturn(Nil)
    /\ UNCHANGED installFrame
    /\ UNCHANGED guardVars

installWordPress ==
    \/ InstallCheck
    \/ InstallChecked
    \/ InstallSetupDone
    \/ InstallUpdated

\* The caller goes on: the locals of the operation that returned are gone.
Finish ==
    /\ pc = "returned"
    /\ caller = NoCaller
    /\ pc' = "idle"
    /\ ops' = ops + 1
    /\ events' = << >>
    /\ result' = NoResult
    /\ appDir' = << >>
    /\ appVolumes' = << >>
    /\ appContainers' = << >>
    /\ idx' = 0
    /\ cliContainer' = [Name |-> ""]
    /\ ran' = NoRun
    /\ existed' = {}
    /\ UNCHANGED <<goos, site, builtEnvs, running, imageUpdateData, checkedImages, pulls,
                   caller>>
    /\ UNCHANGED guardVars

\* ------------------------------------------------------------- specification

Init ==
    /\ goos \in Platforms
    /\ site \in Settings
    /\ pc = "g_list"
    /\ retries = 0
    /\ listResults = <<>>
    /\ launches = 0
    /\ launchErr = Pending
    /\ sleeps = 0
    /\ guardErr = Pending
    /\ ops = 0
    /\ events = <<>>
    /\ result = NoResult
    /\ appDir = <<>>
    /\ appVolumes = <<>>
    /\ appContainers = <<>>
    /\ idx = 0
    /\ cliContainer = [Name |-> ""]
    /\ builtEnvs = << >>
    /\ running = EmptyBag
    /\ ran = NoRun
    /\ existed = {}
    /\ imageUpdateData = NoImageData
    /\ checkedImages = {}
    /\ pulls = << >>
    /\ caller = NoCaller

Next ==
    \/ Guard
    \/ startWordPress
    \/ stopWordPress
    \/ WPCli
    \/ NewWordPress
    \/ Finish

Spec == Init /\ [][Next]_vars

\* NewDockerClient alone: every call of the guard returns and every sleep ends, so
\* the guard takes its next step as long as it has one.
SpecGuard == Init /\ [][Guard]_vars /\ WF_vars(Guard)

\* ------------------------------------- a later invocation for the same site

\* The containers startWordPress runs for a descriptor when nothing fails.
EarlierApp(d) ==
    BuildAppContainers(d,
        getWordPressMounts(d, getDirectories(d, "").appDir, TRUE).mounts,
        [val |-> d.Database = "sqlite", err |-> Nil])

\* A container of one of the two roles that other operations of the site run.
SideContainer(d, role) ==
    [Name |-> "kana-" \o d.Name \o "-" \o role,
     Image |-> role,
     HostName |-> "kana-" \o d.Name \o "-" \o role,
     Command |-> << >>, Env |-> << >>, Volumes |-> << >>]

\* The four role containers an earlier invocation may have left with the engine.
Leftovers(d) ==
    { EarlierApp(d)[1], EarlierApp(d)[2],
      SideContainer(d, "phpmyadmin"), SideContainer(d, "mailpit") }

\* The site as an earlier invocation may have described it: the same but for
\* the type of the artifact.
EarlierSettings(d) == { [d EXCEPT !.Type = t] : t \in Types }

\* What loadImageUpdateData may find: no record, or one of any age.
ImageData == {NoImageData} \cup UNION { [{i} -> 0 .. Now] : i \in Images }

EngineSettings == SettingsWith({"acme"}, {"site", "plugin"}, {FALSE}, Intervals)

\* The engine answered the first listing call; the engine and the cache file are as
\* earlier invocations left them.
EngineInit ==
    /\ goos = "linux"
    /\ site \in EngineSettings
    /\ pc = "idle"
    /\ retries = 0
    /\ listResults = <<TRUE>>
    /\ launches = 0
    /\ launchErr = Pending
    /\ sleeps = 0
    /\ guardErr = Nil
    /\ ops = 0
    /\ events = <<>>
    /\ result = NoResult
    /\ appDir = <<>>
    /\ appVolumes = <<>>
    /\ appContainers = <<>>
    /\ idx = 0
    /\ cliContainer = [Name |-> ""]
    /\ builtEnvs = << >>
    /\ \E e \in EarlierSettings(site) :
       \E left \in SUBSET Leftovers(e), data \in ImageData :
        /\ left = {} \/ (data = NoImageData /\ site.UpdateInterval = MaxInterval)
        /\ running = SetToBag(left)
        /\ imageUpdateData = data
    /\ ran = NoRun
    /\ existed = {}
    /\ checkedImages = {}
    /\ pulls = << >>
    /\ caller = NoCaller

EngineNext ==
    \/ startWordPress
    \/ stopWordPress
    \/ WPCli
    \/ NewWordPress
    \/ Finish

SpecEngine == EngineInit /\ [][EngineNext]_vars

\* The set-up of the site after its start: installWordPress and the commands it
\* and the user run through WPCli.
InstallNext ==
    \/ installWordPress
    \/ WPCli
    \/ Finish

SpecInstall == EngineInit /\ [][InstallNext]_vars

\* ------------------------------------------------------------------- claims

GuardReturned == guardErr # Pending

\* C1: once a retry listing call (any call after the first) has succeeded, the guard
\* makes no further listing call, and it returns success.
C1_SuccessfulRetryEndsGuard ==
    \A i \in 2..Len(listResults) :
        listResults[i] => /\ Len(listResults) = i
                          /\ (GuardReturned => guardErr = Nil)

\* C2: with the launcher started and every listing call failing, the guard returns
\* the unreachable error after exactly maxRetries listing calls, never more.
C2_ExactlyMaxRetriesAttempts ==
    /\ Len(listResults) <= maxRetries
    /\ ( /\ GuardReturned
         /\ goos = "darwin"
         /\ launches = 1
         /\ retries >= 1
         /\ \A i \in 1..Len(listResults) : ~listResults[i] )
       => /\ Len(listResults) = maxRetries
          /\ guardErr = ErrStartDocker

\* C3: on a platform without auto-launch a failed first listing call ends the guard
\* with an error at once: one listing call, no launcher, no sleep, no retry loop.
C3_NoAutoLaunchFailsAtOnce ==
    ( /\ goos # "darwin"
      /\ Len(listResults) >= 1
      /\ ~listResults[1] )
    => /\ GuardReturned
       /\ guardErr # Nil
       /\ pc \in {"g_return", "exit"}
       /\ Len(listResults) = 1
       /\ launches = 0
       /\ sleeps = 0
       /\ retries = 0

C3_Witness ==
    /\ goos = "linux"
    /\ listResults = << FALSE >>
    /\ guardErr = ErrList
    /\ pc = "exit"

StartPCs == {"s_dirs", "s_config", "s_mounts", "s_build", "s_run", "s_verify"}

InStart == pc \in StartPCs \/ (pc = "returned" /\ result.op = "start")

Succeeded(call, arg, before) ==
    \E j \in 1..(before - 1) : events[j] = Event(call, arg, TRUE)

\* C4: in startWordPress a container is run only after the network is ensured and the
\* mounts are planned, the database container is run before the WordPress container
\* (in NewWordPress too), verifyDatabase is called only after every container of
\* appContainers has been run, and success is returned only after it succeeds.
C4_StartOrder ==
    /\ \A i \in 1..Len(events) :
        /\ events[i].call = "startContainer"
            => /\ Succeeded("EnsureNetwork", "kana", i)
               /\ Succeeded("getWordPressMounts", "", i)
        /\ (events[i].call = "startContainer" /\ events[i].arg = WordPressName(site))
            => Succeeded("startContainer", "kana-" \o site.Name \o "-database", i)
        /\ (events[i].call = "ContainerRun"
                /\ events[i].arg = "kana_" \o site.Name \o "_wordpress")
            => Succeeded("ContainerRun", "kana_" \o site.Name \o "_mariadb", i)
        /\ events[i].call = "verifyDatabase"
            => \A k \in 1..Len(appContainers) :
                  Succeeded("startContainer", appContainers[k].Name, i)
    /\ (result.op = "start" /\ result.err = Nil)
        => /\ Len(events) > 0
           /\ events[Len(events)] = Event("verifyDatabase", "", TRUE)

C4_Witness ==
    /\ result.op = "start"
    /\ result.err = Nil
    /\ Len(appContainers) = 2
    /\ appContainers[2].Name = WordPressName(site)

InfrastructureCalls ==
    {"EnsureNetwork", "getDirectories", "getWordPressMounts", "startContainer"}

ErrorsOf(call) ==
    IF call = "EnsureNetwork" THEN {"error: EnsureNetwork failed"}
    ELSE IF call = "getDirectories" THEN {"error: getDirectories failed"}
    ELSE IF call = "getWordPressMounts"
         THEN {"error: mkdir plugin directory", "error: mkdir theme directory"}
    ELSE IF call = "startContainer" THEN {"error: startContainer failed"}
    ELSE {}

\* C5: a failed infrastructure step of startWordPress is its last step: the operation
\* has returned, with that step's error, and no later call was made.
C5_StartAbortsOnFailure ==
    InStart =>
        \A i \in 1..Len(events) :
            (events[i].call \in InfrastructureCalls /\ ~events[i].ok)
            => /\ i = Len(events)
               /\ pc = "returned"
               /\ result.op = "start"
               /\ result.err \in ErrorsOf(events[i].call)

C5_Witness ==
    /\ pc = "returned"
    /\ result.op = "start"
    /\ Len(events) >= 3
    /\ events[Len(events)] = Event("getWordPressMounts", "", FALSE)
    /\ result.err = "error: mkdir plugin directory"

\* The WordPress container spec startWordPress has built, the command container
\* WPCli has built, and the WordPress container the engine runs.
BuiltApp ==
    { appContainers[i] : i \in { j \in 1..Len(appContainers) :
                                   appContainers[j].Name = WordPressName(site) } }

BuiltCli == IF cliContainer.Name # "" THEN {cliContainer} ELSE {}

Managed == BuiltApp \cup BuiltCli

RunningApp == { c \in BagToSet(running) : c.Name = WordPressName(site) }

Keys(env) == { env[i].key : i \in 1..Len(env) }

MarkerVar == [key |-> "IS_KANA_ENVIRONMENT", val |-> "true"]

RemoteDBKeys ==
    {"WORDPRESS_DB_HOST", "WORDPRESS_DB_USER", "WORDPRESS_DB_PASSWORD",
     "WORDPRESS_DB_NAME"}

DatabaseBlockKeys == RemoteDBKeys \cup {"KANA_SQLITE", "WORDPRESS_ADMIN_USER"}

OptionalKeys == {"KANA_ADMIN_LOGIN", "WORDPRESS_DEBUG", "WORDPRESS_CONFIG_EXTRA"}

NoOptionalFlag == ~site.AutomaticLogin /\ ~site.WPDebug /\ ~site.ScriptDebug

\* C6: the command container WPCli builds has the same environment list as the
\* WordPress container startWordPress has run for the same descriptor.
C6_CommandEnvEqualsAppEnv ==
    \A a \in RunningApp, c \in BuiltCli : c.Env = a.Env

\* C7 as stated: each optional variable is present only when its flag is set, and
\* with every optional flag unset the list is the marker and the database block only.
C7_OptionalOnlyWhenFlagSet ==
    \A c \in Managed :
        /\ "KANA_ADMIN_LOGIN" \in Keys(c.Env) => site.AutomaticLogin
        /\ "WORDPRESS_DEBUG" \in Keys(c.Env) => site.WPDebug
        /\ NoOptionalFlag
            => Keys(c.Env) \subseteq {MarkerVar.key} \cup DatabaseBlockKeys

\* C7 amended: the login and debug variables are present only when their flag is set
\* (in the WordPress container exactly when it is set); WORDPRESS_CONFIG_EXTRA, the
\* environment-type declaration, is always the last element of the WordPress
\* container's list, with the SCRIPT_DEBUG define only when ScriptDebug is set; with
\* every optional flag unset the WordPress container's list is the marker, the database
\* block and that declaration, the command container's the marker and the block only.
C7_OptionalFlags ==
    /\ \A c \in Managed :
        /\ "KANA_ADMIN_LOGIN" \in Keys(c.Env) => site.AutomaticLogin
        /\ "WORDPRESS_DEBUG" \in Keys(c.Env) => site.WPDebug
    /\ \A c \in BuiltApp :
        /\ site.AutomaticLogin => "KANA_ADMIN_LOGIN" \in Keys(c.Env)
        /\ site.WPDebug => "WORDPRESS_DEBUG" \in Keys(c.Env)
        /\ c.Env[Len(c.Env)] =
              [key |-> "WORDPRESS_CONFIG_EXTRA",
               val |-> IF site.ScriptDebug
                       THEN "define( 'WP_ENVIRONMENT_TYPE', '" \o site.Environment
                            \o "' );define( 'SCRIPT_DEBUG', true );"
                       ELSE "define( 'WP_ENVIRONMENT_TYPE', '" \o site.Environment
                            \o "' );"]
        /\ \A i \in 1..(Len(c.Env) - 1) : c.Env[i].key # "WORDPRESS_CONFIG_EXTRA"
        /\ NoOptionalFlag
            => Keys(SubSeq(c.Env, 1, Len(c.Env) - 1))
                  \subseteq {MarkerVar.key} \cup DatabaseBlockKeys
    /\ \A c \in BuiltCli :
        NoOptionalFlag
            => Keys(c.Env) \subseteq {MarkerVar.key} \cup DatabaseBlockKeys

C7_Witness ==
    /\ NoOptionalFlag
    /\ BuiltApp # {}
    /\ pc = "s_run"

\* C8: in embedded-database mode the list starts with the marker, then the mode flag,
\* and holds no remote-database variable.
C8_EmbeddedMode ==
    \A c \in Managed :
        site.Database = "sqlite"
        => /\ Len(c.Env) >= 2
           /\ c.Env[1] = MarkerVar
           /\ c.Env[2] = [key |-> "KANA_SQLITE", val |-> "true"]
           /\ Keys(c.Env) \cap RemoteDBKeys = {}

C8_Witness ==
    /\ site.Database = "sqlite"
    /\ BuiltCli # {}
    /\ pc = "c_image"

\* C9 as stated: with embedded mode off the database block is exactly the four
\* remote-database variables: what follows them is optional variables only.
C9_ExactlyFourRemoteVars ==
    \A c \in Managed :
        site.Database # "sqlite"
        => /\ Len(c.Env) >= 5
           /\ Keys(SubSeq(c.Env, 2, 5)) = RemoteDBKeys
           /\ \A i \in 6..Len(c.Env) : c.Env[i].key \in OptionalKeys
           /\ "KANA_SQLITE" \notin Keys(c.Env)

\* C9 amended: with embedded mode off the database block is the four remote-database
\* variables (host kana-<name>-database, user, password and database wordpress)
\* followed by WORDPRESS_ADMIN_USER=admin, and the embedded-mode flag is absent.
C9_RemoteBlock ==
    \A c \in Managed :
        site.Database # "sqlite"
        => /\ Len(c.Env) >= 6
           /\ SubSeq(c.Env, 2, 6) =
                << [key |-> "WORDPRESS_DB_HOST",
                    val |-> "kana-" \o site.Name \o "-database"],
                   [key |-> "WORDPRESS_DB_USER", val |-> "wordpress"],
                   [key |-> "WORDPRESS_DB_PASSWORD", val |-> "wordpress"],
                   [key |-> "WORDPRESS_DB_NAME", val |-> "wordpress"],
                   [key |-> "WORDPRESS_ADMIN_USER", val |-> "admin"] >>
           /\ \A i \in 7..Len(c.Env) : c.Env[i].key \in OptionalKeys
           /\ "KANA_SQLITE" \notin Keys(c.Env)

C9_Witness ==
    /\ site.Database = "mariadb"
    /\ site.Name = "blog"
    /\ BuiltApp # {}
    /\ pc = "s_verify"

\* C10: the list is the marker, then the database block, then the optional variables,
\* the login variable before the debug variable; all the lists composed for the
\* WordPress container of one descriptor are equal.
C10_FixedOrder ==
    /\ \A c \in Managed :
        /\ c.Env[1] = MarkerVar
        /\ \A i \in 2..Len(c.Env) :
              c.Env[i].key \in DatabaseBlockKeys \cup OptionalKeys
        /\ \A i \in 2..Len(c.Env), j \in 2..Len(c.Env) :
              (c.Env[i].key \in DatabaseBlockKeys /\ c.Env[j].key \in OptionalKeys)
              => i < j
        /\ \A i \in 1..Len(c.Env), j \in 1..Len(c.Env) :
              (c.Env[i].key = "KANA_ADMIN_LOGIN" /\ c.Env[j].key = "WORDPRESS_DEBUG")
              => i < j
    /\ \A i \in 1..Len(builtEnvs), j \in 1..Len(builtEnvs) :
          builtEnvs[i] = builtEnvs[j]

C10_Witness ==
    /\ site.AutomaticLogin
    /\ site.WPDebug
    /\ Len(builtEnvs) = 2
    /\ BuiltApp # {}
    /\ \E c \in BuiltApp : {"KANA_ADMIN_LOGIN", "WORDPRESS_DEBUG"} \subseteq Keys(c.Env)

\* C19: when the launcher cannot be spawned the guard returns the start error at
\* once: it has not slept and has made no listing call but the first, failed one.
C19_SpawnFailureIsFatal ==
    launchErr = ErrExec =>
        /\ pc \in {"g_return", "exit"}
        /\ guardErr = ErrStartDocker
        /\ sleeps = 0
        /\ retries = 0
        /\ listResults = <<FALSE>>
        /\ launches = 1

C19_Witness == launchErr = ErrExec /\ pc = "exit"

\* C20: whenever startWordPress has returned success, the database container and
\* the application container have both been started.
C20_SuccessMeansBothRan ==
    (result.op = "start" /\ result.err = Nil) =>
        /\ Succeeded("startContainer", "kana-" \o site.Name \o "-database", Len(events) + 1)
        /\ Succeeded("startContainer", WordPressName(site), Len(events) + 1)

\* getWordPressMounts has returned its list to startWordPress or WPCli.
MountsPlanned == pc \in {"s_build", "c_build"}

EndsIn(path, suffix) ==
    /\ Len(path) >= Len(suffix)
    /\ SubSeq(path, Len(path) - Len(suffix) + 1, Len(path)) = suffix

\* C11: the planned list always holds the document-root bind and the site-data
\* bind; type plugin adds exactly one bind whose target ends in
\* wp-content/plugins/<name>, type theme exactly one whose target ends in
\* wp-content/themes/<name>, type site none.
C11_MountsByType ==
    MountsPlanned =>
        /\ Len(appVolumes) >= 2
        /\ appVolumes[1] = Bind(appDir, DocumentRoot)
        /\ appVolumes[2] = Bind(site.SiteDirectory, <<"Site">>)
        /\ site.Type = "site" => Len(appVolumes) = 2
        /\ site.Type = "plugin" =>
              /\ Len(appVolumes) = 3
              /\ EndsIn(appVolumes[3].Target,
                        <<"wp-content", "plugins">> \o PathElements(site.Name))
        /\ site.Type = "theme" =>
              /\ Len(appVolumes) = 3
              /\ EndsIn(appVolumes[3].Target,
                        <<"wp-content", "themes">> \o PathElements(site.Name))

\* C12: no two mounts of a planned list share a target path, whatever the artifact
\* type and the artifact name.
C12_NoSharedTarget ==
    MountsPlanned =>
        \A i, j \in 1..Len(appVolumes) :
            i # j => appVolumes[i].Target # appVolumes[j].Target

Stopped == pc = "returned" /\ result.op = "stop"

\* The containers the engine has under one of the four role names of the site.
RoleContainers ==
    { c \in BagToSet(running) :
        c.Name \in { "kana-" \o site.Name \o "-" \o role :
                        role \in {"database", "wordpress", "phpmyadmin", "mailpit"} } }

\* C13: whatever subset of the four role containers existed, stopWordPress fails
\* only with the error of an engine call that failed, never because a container
\* was absent; when it returns success it has stopped the database, wordpress,
\* phpmyadmin and mailpit names, each once and in that order, and the engine runs
\* none of them.
C13_StopWhateverExists ==
    Stopped =>
        /\ result.err \in {Nil, ErrEngine}
        /\ result.err = ErrEngine <=> \E i \in 1..Len(events) : ~events[i].ok
        /\ result.err = Nil =>
              /\ events = << Event("ContainerStop", "kana-" \o site.Name \o "-database", TRUE),
                             Event("ContainerStop", "kana-" \o site.Name \o "-wordpress", TRUE),
                             Event("ContainerStop", "kana-" \o site.Name \o "-phpmyadmin", TRUE),
                             Event("ContainerStop", "kana-" \o site.Name \o "-mailpit", TRUE) >>
              /\ RoleContainers = {}

C13_Witness == Stopped /\ result.err = Nil /\ existed = {} /\ ops = 0

Ran == pc = "returned" /\ result.op = "wpcli" /\ ran.completed

\* C14: when the command container ran to completion, WPCli returns its exit code
\* and its output with a nil error, for exit code zero and non-zero alike.
C14_ExitCodeIsData ==
    Ran =>
        /\ result.err = Nil
        /\ result.code = ran.code
        /\ result.output = ran.output

C14_Witness == Ran /\ ran.code # 0 /\ result.output # ""

\* C15: when the removal of the command container fails after its run, WPCli still
\* returns the run's exit code and output, unchanged and with a nil error.
C15_RemovalFailureKeepsResult ==
    (Ran /\ ~ran.removed) =>
        result = [op |-> "wpcli", code |-> ran.code, output |-> ran.output, err |-> Nil]

C15_Witness == Ran /\ ~ran.removed /\ ran.code # 0

\* The image of the container a ContainerRun or ContainerRunAndClean event is about.
ImagesOf(e) ==
    IF e.call = "ContainerRunAndClean"
    THEN { cliContainer.Image }
    ELSE { appContainers[k].Image :
             k \in { n \in 1..Len(appContainers) : appContainers[n].HostName = e.arg } }

\* C16: in WPCli and in NewWordPress every container is run directly after
\* EnsureImage has succeeded for its image, and a failed EnsureImage ends the
\* operation: nothing is run after it.
C16_ImageBeforeContainer ==
    \A i \in 1..Len(events) :
        /\ events[i].call \in {"ContainerRun", "ContainerRunAndClean"} =>
              /\ i > 1
              /\ events[i - 1].call = "EnsureImage"
              /\ events[i - 1].ok
              /\ events[i - 1].arg \in ImagesOf(events[i])
        /\ (events[i].call = "EnsureImage" /\ ~events[i].ok) =>
              /\ i = Len(events)
              /\ pc \in {"returned", "exit"}
              /\ result.err # Nil

C16_Witness ==
    /\ pc = "exit"
    /\ result.op = "new"
    /\ Len(events) = 3
    /\ events[2].call = "ContainerRun"
    /\ events[3] = Event("EnsureImage", "wordpress", FALSE)

\* C17: every pull EnsureImage made for WPCli found no record of the image, or a
\* record whose age had reached the configured interval: while now - lastChecked
\* is below the interval no pull happens.
C17_NoPullWhileFresh ==
    \A i \in 1..Len(pulls) :
        \/ ~pulls[i].known
        \/ Now - pulls[i].lastChecked >= site.UpdateInterval

\* EnsureImage has returned success on a fresh record without a pull.
C17_Witness ==
    /\ pc = "c_run"
    /\ ops = 0
    /\ pulls = << >>
    /\ site.UpdateInterval > 0

\* The number of containers the engine has under a name.
CountOf(name) ==
    LET named == { c \in DOMAIN running : c.Name = name }
    IN  IF named = {} THEN 0
        ELSE IF Cardinality(named) > 1 THEN 2
        ELSE running[CHOOSE c \in named : TRUE]

\* C18: the engine never has two containers under one name, and once a container
\* has been started in startWordPress the engine has exactly one container of its
\* name, the one just built, whether or not one of that name existed before.
C18_OneContainerPerName ==
    /\ \A c \in DOMAIN running : c.Name # "" => CountOf(c.Name) = 1
    /\ \A i \in 1..Len(events) :
          (events[i].call = "startContainer" /\ events[i].ok) =>
              /\ CountOf(events[i].arg) = 1
              /\ \E k \in 1..Len(appContainers) :
                    /\ appContainers[k].Name = events[i].arg
                    /\ appContainers[k] \in DOMAIN running

\* Start succeeded over containers of both names left by an earlier start.
C18_Witness ==
    /\ pc = "returned"
    /\ result.op = "start"
    /\ result.err = Nil
    /\ existed = { "kana-" \o site.Name \o "-database", WordPressName(site) }
    /\ ops = 1

\* C21: on every sequence of engine responses the guard comes to its end; it
\* spawns the launcher at most once and only after a failed first listing call, and
\* it makes at most maxRetries listing calls in all.
C21_GuardTerminates ==
    /\ <>(pc \in {"idle", "exit"})
    /\ [](/\ launches <= 1
          /\ launches = 1 => (Len(listResults) >= 1 /\ ~listResults[1])
          /\ Len(listResults) <= maxRetries)

\* The guard has ended after a launch and maxRetries listing calls.
C21_Witness ==
    /\ pc = "exit"
    /\ launches = 1
    /\ Len(listResults) = maxRetries

\* Some mount has a target beneath dir.
HasTargetUnder(mounts, dir) ==
    \E i \in 1..Len(mounts) : ContainsDir(mounts[i].Target, dir)

\* C22: the first step of WPCli reads the mounts of the running WordPress
\* container. With a target beneath wp-content/plugins the type becomes plugin, with
\* one beneath wp-content/themes it becomes theme, whatever the descriptor said;
\* with neither the descriptor's type is kept. When the override fails WPCli
\* returns status 1 with empty output and an error, and nothing is run.
C22_TypeFromMounts ==
    [][ (pc = "idle" /\ pc' \in {"c_dir", "returned"}
            /\ Len(events') = 1 /\ events'[1].call = "ContainerGetMounts") =>
          LET mounts == ContainerGetMounts(WordPressName(site))
              plugin == HasTargetUnder(mounts, PluginsDir)
              theme == HasTargetUnder(mounts, ThemesDir)
          IN  /\ pc' = "c_dir" =>
                    /\ (plugin /\ ~theme) => site'.Type = "plugin"
                    /\ (theme /\ ~plugin) => site'.Type = "theme"
                    /\ (~plugin /\ ~theme) => site'.Type = site.Type
              /\ pc' = "returned" =>
                    /\ plugin \/ theme
                    /\ result'.op = "wpcli"
                    /\ result'.code = 1
                    /\ result'.output = ""
                    /\ result'.err \notin {Nil, Pending}
                    /\ running' = running
                    /\ ran' = NoRun
      ]_vars

\* WPCli goes on with type theme, which only the mounts of the running container
\* can have given it: no site of EngineSettings has that type.
C22_Witness ==
    /\ pc = "c_dir"
    /\ site.Type = "theme"
    /\ HasTargetUnder(ContainerGetMounts(WordPressName(site)), ThemesDir)

\* C23: installWordPress never panics on a nil error: it comes to its end by
\* returning, and it returns nil only when the last command it ran completed with
\* exit code zero.
C23_InstallNeverPanics ==
    result.op = "install" =>
        /\ pc = "returned"
        /\ result.err # ErrNilDereference
        /\ result.err = Nil => (ran.completed /\ ran.code = 0)

====
